---- MODULE Spec2Model ----
(***************************************************************************)
(* Model of yahoogroupsapi.py: the YahooGroupsAPI client.                  *)
(*                                                                         *)
(* One engine instance (group, delay) serves a sequence of synchronous     *)
(* calls.  A call is get_json (directly or through __getattr__) or         *)
(* download_file.  Each network request is one step whose input is the     *)
(* server's answer (a transport failure or an HTTP response), drawn from   *)
(* a small set.  The sleeps and requests of the call in progress are kept  *)
(* in `log`, the answers it received in `resps`.                           *)
(***************************************************************************)
EXTENDS Integers, Sequences, FiniteSets, TLC

VARIABLES
    group,      \* self.group
    delay,      \* self.delay
    pc,         \* "idle" | "get_json" | "download_file" | "done"; "backoff_time" | "backoff_done"
    op,         \* the call in progress or last finished: "none" | "get_json" | "download_file"
    via,        \* "attr" (attribute-style call) | "direct" (get_json called) | "none"
    target,     \* get_json: the resource name
    parts,      \* get_json: the positional path parts
    uri,        \* get_json: the uri built at line 124
    attempt,    \* get_json: the loop variable of line 128
    retries,    \* download_file: the counter of line 97
    hasSink,    \* download_file: f is not None
    sink0,      \* download_file: what f held when the call started
    sink,       \* download_file: what f holds (a sequence of chunks)
    log,        \* the sleeps and requests of the call, in order
    resps,      \* the answers the call received, in order
    result,     \* how the call ended
    ww,         \* self.ww
    http_context,   \* self.http_context
    warcio_failed,  \* the module's warcio_failed: the import of line 10 failed
    ctx,        \* the context manager the call entered at line 96 or 117
    wwArg,      \* set_warc_writer: its argument
    kinds,      \* get_json: what the inner try block of each attempt ended with
    lastResponse,   \* the local r: the last response received
    prev        \* what the caller holds of the call before this one

vars == <<group, delay, pc, op, via, target, parts, uri, attempt, retries,
          hasSink, sink0, sink, log, resps, result,
          ww, http_context, warcio_failed, ctx, wwArg, kinds, lastResponse, prev>>

---------------------------------------------------------------------------
(* Bounds of the model *)

MaxParts == 2
MaxDelay == 1
MaxBackoffAttempt == 6

(* Program constants *)

tries == 5
DownloadRetries == 5
RetryPause == 5
chunk_size == 4096

BASE_URI == "https://groups.yahoo.com/api"

API_VERSIONS ==
    [HackGroupInfo |-> "v1", messages |-> "v1", files |-> "v2", albums |-> "v2",
     database |-> "v1", links |-> "v1", statistics |-> "v1", polls |-> "v1",
     attachments |-> "v1", members |-> "v1"]

(* The exception classes of lines 26-39 *)
Taxonomy == {"Recoverable", "AuthenticationError", "NotFound", "Unrecoverable"}

---------------------------------------------------------------------------
(* Inputs *)

Groups == {"mygroup"}
Delays == 0..MaxDelay
UnknownNames == {"topics", "Messages"}
ResourceNames == DOMAIN API_VERSIONS \cup UnknownNames

IntPart(n) == [isInt |-> TRUE, n |-> n, s |-> ""]
StrPart(s) == [isInt |-> FALSE, n |-> 0, s |-> s]
PartValues == {IntPart(123), StrPart("raw")}
PartSeqs == UNION {[1..k -> PartValues] : k \in 0..MaxParts}

Statuses == {200, 204, 304, 307, 400, 401, 403, 404, 503}
Payloads == {"p1", "p2"}

NoBody == [shape |-> "not_json", hasData |-> FALSE, hasError |-> FALSE, ygData |-> ""]
Bodies ==
    {NoBody,
     [shape |-> "non_object", hasData |-> FALSE, hasError |-> FALSE, ygData |-> ""]}
    \cup {[shape |-> "object", hasData |-> FALSE, hasError |-> e, ygData |-> ""] :
             e \in BOOLEAN}
    \cup {[shape |-> "object", hasData |-> TRUE, hasError |-> e, ygData |-> p] :
             e \in BOOLEAN, p \in Payloads}

NoContent == [tag |-> "none", len |-> 0]
Contents == {[tag |-> "c", len |-> n] : n \in {0, 1, chunk_size, chunk_size + 1}}

TransportErrors == {"ConnectionError", "Timeout"}
TransportFailures ==
    {[kind |-> k, status |-> 0, body |-> NoBody, content |-> NoContent] :
        k \in TransportErrors}
FetchResponses ==
    TransportFailures \cup
    {[kind |-> "http", status |-> s, body |-> b, content |-> NoContent] :
        s \in Statuses, b \in Bodies}
DownloadResponses ==
    TransportFailures \cup
    {[kind |-> "http", status |-> s, body |-> NoBody, content |-> c] :
        s \in Statuses, c \in Contents}

NoResponse == [kind |-> "none", status |-> 0, body |-> NoBody, content |-> NoContent]

Writers == {"w1"}

(* What a call keeps of an answer in resps: the content is read only from   *)
(* the response that ends a download.                                       *)
Seen(r) == [kind |-> r.kind, status |-> r.status, body |-> r.body]

---------------------------------------------------------------------------
(* Events of a call *)

Pace(d) == [ev |-> "pace", d |-> d]            \* time.sleep(self.delay)
Request == [ev |-> "request", d |-> 0]         \* self.s.get(...)
Backoff(d) == [ev |-> "backoff", d |-> d]      \* time.sleep(delay) of line 160
Pause(d) == [ev |-> "pause", d |-> d]          \* time.sleep(5) of line 104

RECURSIVE Count(_, _)
Count(lg, e) ==
    IF lg = <<>> THEN 0
    ELSE (IF Head(lg).ev = e THEN 1 ELSE 0) + Count(Tail(lg), e)

(* Results of a call *)
NoResult == [kind |-> "none", exc |-> "", data |-> "", content |-> NoContent]
Raise(e) == [kind |-> "raise", exc |-> e, data |-> "", content |-> NoContent]
ReturnData(p) == [kind |-> "return", exc |-> "", data |-> p, content |-> NoContent]
ReturnContent(c) == [kind |-> "return", exc |-> "", data |-> "", content |-> c]
ReturnNone == [kind |-> "return", exc |-> "", data |-> "", content |-> NoContent]

(* The caller holds nothing of an earlier call *)
NoPrev ==
    [op |-> "none", uri |-> "",
     resp |-> [kind |-> "none", status |-> 0, body |-> NoBody], result |-> NoResult,
     left |-> 0]

---------------------------------------------------------------------------
(* get_json, lines 118-124: the request URI *)

Digit(d) ==
    CASE d = 0 -> "0" [] d = 1 -> "1" [] d = 2 -> "2" [] d = 3 -> "3" [] d = 4 -> "4"
      [] d = 5 -> "5" [] d = 6 -> "6" [] d = 7 -> "7" [] d = 8 -> "8" [] d = 9 -> "9"

RECURSIVE IntToStr(_)
IntToStr(n) ==
    IF n < 0 THEN "-" \o IntToStr(0 - n)
    ELSE IF n < 10 THEN Digit(n)
    ELSE IntToStr(n \div 10) \o Digit(n % 10)

(* str(part) of line 119 *)
Str(p) == IF p.isInt THEN IntToStr(p.n) ELSE p.s

(* "/".join(uri_parts) of line 124 *)
RECURSIVE Join(_)
Join(ss) ==
    IF ss = <<>> THEN ""
    ELSE IF Len(ss) = 1 THEN ss[1]
    ELSE ss[1] \o "/" \o Join(Tail(ss))

(* Variant of VersionOf: an unknown name falls back to a default version, *)
(* as self.API_VERSIONS.get(target, 'v1') would                           *)
VersionOf_default(t) ==
    [ok |-> TRUE, v |-> IF t \in DOMAIN API_VERSIONS THEN API_VERSIONS[t] ELSE "v1"]

(* self.API_VERSIONS[target] of line 118: KeyError (ok = FALSE) for a name *)
(* that is no key                                                          *)
VersionOf(t) ==
    [ok |-> t \in DOMAIN API_VERSIONS,
     v |-> IF t \in DOMAIN API_VERSIONS THEN API_VERSIONS[t] ELSE ""]

(* Variant of uri_parts: the HackGroupInfo special case left out *)
uri_parts_no_hack(g, t, ps) ==
    <<BASE_URI, VersionOf(t).v, "groups", g, t>> \o [j \in 1..Len(ps) |-> Str(ps[j])]

(* lines 118-122; uri_parts[4] of the source is the fifth element *)
uri_parts(g, t, ps) ==
    LET base == <<BASE_URI, VersionOf(t).v, "groups", g, t>>
                    \o [j \in 1..Len(ps) |-> Str(ps[j])]
    IN IF t = "HackGroupInfo" THEN [base EXCEPT ![5] = ""] ELSE base

BuildUri(g, t, ps) == Join(uri_parts(g, t, ps))

(* line 91: name not in self.API_VERSIONS *)
GetattrKnown(name) == name \in DOMAIN API_VERSIONS

---------------------------------------------------------------------------
(* backoff_time, lines 42-43: random.randint(a, b) draws from a..b, both    *)
(* ends included.                                                           *)

(* Variant of backoff_time: * written for ** *)
backoff_time_product(a) == (2 * a)..(2 * (a + 1))

backoff_time(a) == (2 ^ a)..(2 ^ (a + 1))

---------------------------------------------------------------------------
(* get_json, lines 129-155: one attempt *)

(* requests' Response.raise_for_status: HTTPError for 400 <= status < 600 *)
RaisesForStatus(status) == 400 <= status /\ status < 600

(* lines 148-155 *)
Classify(code) ==
    IF code = 307 \/ code = 401 \/ code = 403 THEN "AuthenticationError"
    ELSE IF code = 404 THEN "NotFound"
    ELSE "Recoverable"

(* lines 141-155: e.response.json()['ygError'] raises ValueError for a body *)
(* that is not JSON and KeyError for an object without the field, both      *)
(* caught at line 145; subscripting a list, string, number or null with a   *)
(* string raises TypeError, which line 145 does not catch.                  *)
HTTPErrorHandler(r) ==
    IF r.body.shape = "non_object" THEN Raise("TypeError")
    ELSE Raise(Classify(r.status))

(* Variant of JsonYgData: the field read with a default, as                *)
(* r.json().get('ygData') would                                            *)
JsonYgData_get(b) ==
    IF b.shape = "not_json" THEN Raise("ValueError")
    ELSE IF b.shape = "non_object" THEN Raise("TypeError")
    ELSE ReturnData(b.ygData)

(* Variant of JsonYgData: the whole envelope returned, not its field *)
JsonYgData_envelope(b) ==
    IF b.shape = "not_json" THEN Raise("ValueError")
    ELSE IF b.shape = "non_object" THEN Raise("TypeError")
    ELSE ReturnData("envelope")

(* line 136: r.json()['ygData'] *)
JsonYgData(b) ==
    IF b.shape = "not_json" THEN Raise("ValueError")
    ELSE IF b.shape = "non_object" THEN Raise("TypeError")
    ELSE IF ~b.hasData THEN Raise("KeyError")
    ELSE ReturnData(b.ygData)

(* lines 130-155: the inner try block and its handlers *)
InnerOutcome(r) ==
    IF r.kind \in TransportErrors THEN Raise("Recoverable")
    ELSE IF RaisesForStatus(r.status) \/ r.status # 200 THEN HTTPErrorHandler(r)
    ELSE JsonYgData(r.body)

(* The names bound where line 158 is evaluated: get_json's locals, the      *)
(* module's globals (lines 1-46).  No builtin is named i.                   *)
GetJsonLocals ==
    {"self", "target", "parts", "opts", "uri_parts", "uri", "tries", "attempt", "r",
     "ygError", "code"}
ModuleGlobals ==
    {"unicode_literals", "contextmanager", "functools", "logging", "os", "random",
     "time", "capture_http", "warcio_failed", "requests", "Timeout", "ConnectionError",
     "HTTPError", "VERIFY_HTTPS", "dummy_contextmanager", "YGAException",
     "Unrecoverable", "AuthenticationError", "NotFound", "Recoverable",
     "backoff_time", "YahooGroupsAPI"}
BoundNames == GetJsonLocals \cup ModuleGlobals

(* line 158: the argument of backoff_time(i) *)
BackoffArgName == "i"

IntValueOf(name, att) == IF name = "attempt" THEN att ELSE tries

---------------------------------------------------------------------------
(* download_file, lines 95-113 *)

(* Variant of RetryOn400: the budget test written >= *)
RetryOn400_ge(status, left) == status = 400 /\ left >= 0

(* Variant of RetryOn400: every error status is retried *)
RetryOn400_any(status, left) == status >= 400 /\ left > 0

(* line 101 *)
RetryOn400(status, left) == status = 400 /\ left > 0

(* Variant of DownloadPacing: the sleep hoisted out of the loop *)
DownloadPacing_once(lg, dl) == IF lg = <<>> THEN <<Pace(dl)>> ELSE lg

(* line 99: time.sleep(self.delay), inside the loop *)
DownloadPacing(lg, dl) == Append(lg, Pace(dl))

(* Variant of IterContent: the last, shorter chunk is lost *)
IterContent_floor(c) ==
    LET n == c.len \div chunk_size
    IN [k \in 1..n |->
           [tag |-> c.tag, from |-> (k - 1) * chunk_size, to |-> k * chunk_size]]

(* line 112: r.iter_content(chunk_size=4096), the chunks as byte ranges *)
IterContent(c) ==
    LET n == (c.len + chunk_size - 1) \div chunk_size
    IN [k \in 1..n |->
           [tag |-> c.tag, from |-> (k - 1) * chunk_size,
            to |-> IF k * chunk_size < c.len THEN k * chunk_size ELSE c.len]]

Sinks == {<<>>, <<[tag |-> "old", from |-> 0, to |-> 1]>>}

---------------------------------------------------------------------------
(* State machine *)

Init ==
    /\ group \in Groups
    /\ delay \in Delays
    /\ pc = "idle"
    /\ op = "none"
    /\ via = "none"
    /\ target = ""
    /\ parts = <<>>
    /\ uri = ""
    /\ attempt = 0
    /\ retries = 0
    /\ hasSink = FALSE
    /\ sink0 = <<>>
    /\ sink = <<>>
    /\ log = <<>>
    /\ resps = <<>>
    /\ result = NoResult
    /\ ww = "None"
    /\ http_context = "dummy_contextmanager"
    /\ warcio_failed \in BOOLEAN
    /\ ctx = "none"
    /\ wwArg = "none"
    /\ kinds = <<>>
    /\ lastResponse = NoResponse
    /\ prev = NoPrev

(* A call that ends before its loop: nothing was slept or sent *)
EndAtOnce(o, v, t, ps, c, res) ==
    /\ pc' = "done"
    /\ op' = o
    /\ via' = v
    /\ target' = t
    /\ parts' = ps
    /\ uri' = ""
    /\ attempt' = 0
    /\ retries' = 0
    /\ hasSink' = FALSE
    /\ sink0' = <<>>
    /\ sink' = <<>>
    /\ log' = <<>>
    /\ resps' = <<>>
    /\ result' = res
    /\ ctx' = c
    /\ wwArg' = "none"
    /\ kinds' = <<>>
    /\ lastResponse' = NoResponse
    /\ UNCHANGED <<group, delay, ww, http_context, warcio_failed, prev>>

(* Variant of GetJsonBody: the payload of the last successful fetch is kept *)
(* and a fetch of the same URI is answered from it                          *)
GetJsonBody_cached(t, ps, v) ==
    IF ~VersionOf(t).ok
    THEN EndAtOnce("get_json", v, t, ps, http_context, Raise("KeyError"))
    ELSE IF prev.op = "get_json" /\ prev.result.kind = "return"
            /\ prev.uri = BuildUri(group, t, ps)
    THEN /\ pc' = "done"
         /\ op' = "get_json"
         /\ via' = v
         /\ target' = t
         /\ parts' = ps
         /\ uri' = BuildUri(group, t, ps)
         /\ attempt' = 0
         /\ retries' = 0
         /\ hasSink' = FALSE
         /\ sink0' = <<>>
         /\ sink' = <<>>
         /\ log' = <<>>
         /\ resps' = <<>>
         /\ result' = prev.result
         /\ ctx' = http_context
         /\ wwArg' = "none"
         /\ kinds' = <<>>
         /\ lastResponse' = NoResponse
         /\ UNCHANGED <<group, delay, ww, http_context, warcio_failed, prev>>
    ELSE /\ pc' = "get_json"
         /\ op' = "get_json"
         /\ via' = v
         /\ target' = t
         /\ parts' = ps
         /\ uri' = BuildUri(group, t, ps)
         /\ attempt' = 0
         /\ retries' = 0
         /\ hasSink' = FALSE
         /\ sink0' = <<>>
         /\ sink' = <<>>
         /\ log' = <<Pace(delay)>>
         /\ resps' = <<>>
         /\ result' = NoResult
         /\ ctx' = http_context
         /\ wwArg' = "none"
         /\ kinds' = <<>>
         /\ lastResponse' = NoResponse
         /\ UNCHANGED <<group, delay, ww, http_context, warcio_failed, prev>>

(* get_json, lines 115-127: up to the first iteration of the loop *)
GetJsonBody(t, ps, v) ==
    IF ~VersionOf(t).ok
    THEN EndAtOnce("get_json", v, t, ps, http_context, Raise("KeyError"))
    ELSE /\ pc' = "get_json"
         /\ op' = "get_json"
         /\ via' = v
         /\ target' = t
         /\ parts' = ps
         /\ uri' = BuildUri(group, t, ps)
         /\ attempt' = 0
         /\ retries' = 0
         /\ hasSink' = FALSE
         /\ sink0' = <<>>
         /\ sink' = <<>>
         /\ log' = <<Pace(delay)>>
         /\ resps' = <<>>
         /\ result' = NoResult
         /\ ctx' = http_context
         /\ wwArg' = "none"
         /\ kinds' = <<>>
         /\ lastResponse' = NoResponse
         /\ UNCHANGED <<group, delay, ww, http_context, warcio_failed, prev>>

(* a direct call of get_json with a target and parts *)
GetJson ==
    /\ pc = "idle"
    /\ \E t \in ResourceNames, ps \in PartSeqs : GetJsonBody(t, ps, "direct")

(* the attribute-style call: __getattr__, lines 85-93, then the partial's call *)
GetAttr ==
    /\ pc = "idle"
    /\ \E name \in ResourceNames, ps \in PartSeqs :
          IF ~GetattrKnown(name)
          THEN EndAtOnce("get_json", "attr", name, ps, "none", Raise("AttributeError"))
          ELSE GetJsonBody(name, ps, "attr")

(* get_json, lines 128-163: one iteration of the loop *)
GetJsonAttempt ==
    /\ pc = "get_json"
    /\ \E r \in FetchResponses :
          LET o == InnerOutcome(r)
              sent == Append(log, Request)
          IN /\ resps' = Append(resps, Seen(r))
             /\ lastResponse' = r
             /\ kinds' = Append(kinds, IF o.kind = "raise" THEN o.exc ELSE "return")
             /\ IF o.kind = "raise" /\ o.exc = "Recoverable"
                THEN IF attempt < tries - 1
                     THEN IF BackoffArgName \notin BoundNames
                          THEN /\ result' = Raise("NameError")
                               /\ pc' = "done"
                               /\ log' = sent
                               /\ UNCHANGED attempt
                          ELSE \E d \in backoff_time(IntValueOf(BackoffArgName, attempt)) :
                                  /\ log' = Append(sent, Backoff(d))
                                  /\ attempt' = attempt + 1
                                  /\ UNCHANGED <<pc, result>>
                     ELSE /\ result' = Raise("Recoverable")
                          /\ pc' = "done"
                          /\ log' = sent
                          /\ UNCHANGED attempt
                ELSE /\ result' = o
                     /\ pc' = "done"
                     /\ log' = sent
                     /\ UNCHANGED attempt
    /\ UNCHANGED <<group, delay, op, via, target, parts, uri, retries, hasSink, sink0, sink,
                   ww, http_context, warcio_failed, ctx, wwArg, prev>>

(* Variant of DownloadFile: the retry counter kept on the instance, so that *)
(* a download goes on with what the download before it left                *)
DownloadFile_shared ==
    /\ pc = "idle"
    /\ \E f \in BOOLEAN, s0 \in Sinks :
          /\ (~f => s0 = <<>>)
          /\ hasSink' = f
          /\ sink0' = s0
          /\ sink' = s0
    /\ pc' = "download_file"
    /\ op' = "download_file"
    /\ via' = "none"
    /\ target' = ""
    /\ parts' = <<>>
    /\ uri' = ""
    /\ attempt' = 0
    /\ retries' = IF prev.op = "download_file" THEN prev.left ELSE DownloadRetries
    /\ log' = <<>>
    /\ resps' = <<>>
    /\ result' = NoResult
    /\ ctx' = http_context
    /\ wwArg' = "none"
    /\ kinds' = <<>>
    /\ lastResponse' = NoResponse
    /\ UNCHANGED <<group, delay, ww, http_context, warcio_failed, prev>>

(* yga.download_file(url, f), lines 95-97 *)
DownloadFile ==
    /\ pc = "idle"
    /\ \E f \in BOOLEAN, s0 \in Sinks :
          /\ (~f => s0 = <<>>)
          /\ hasSink' = f
          /\ sink0' = s0
          /\ sink' = s0
    /\ pc' = "download_file"
    /\ op' = "download_file"
    /\ via' = "none"
    /\ target' = ""
    /\ parts' = <<>>
    /\ uri' = ""
    /\ attempt' = 0
    /\ retries' = DownloadRetries
    /\ log' = <<>>
    /\ resps' = <<>>
    /\ result' = NoResult
    /\ ctx' = http_context
    /\ wwArg' = "none"
    /\ kinds' = <<>>
    /\ lastResponse' = NoResponse
    /\ UNCHANGED <<group, delay, ww, http_context, warcio_failed, prev>>

(* download_file, lines 98-113: one iteration of the loop, and what follows *)
(* the loop when it ends                                                    *)
DownloadAttempt ==
    /\ pc = "download_file"
    /\ \E r \in DownloadResponses :
          LET sent == Append(DownloadPacing(log, delay), Request)
          IN /\ resps' = Append(resps, Seen(r))
             /\ lastResponse' = r
             /\ IF r.kind \in TransportErrors
                THEN /\ result' = Raise(r.kind)
                     /\ pc' = "done"
                     /\ log' = sent
                     /\ UNCHANGED <<retries, sink>>
                ELSE IF RetryOn400(r.status, retries)
                THEN /\ retries' = retries - 1
                     /\ log' = Append(sent, Pause(RetryPause))
                     /\ UNCHANGED <<pc, result, sink>>
                ELSE IF RaisesForStatus(r.status)
                THEN /\ result' = Raise("HTTPError")
                     /\ pc' = "done"
                     /\ log' = sent
                     /\ UNCHANGED <<retries, sink>>
                ELSE IF ~hasSink
                THEN /\ result' = ReturnContent(r.content)
                     /\ pc' = "done"
                     /\ log' = sent
                     /\ UNCHANGED <<retries, sink>>
                ELSE /\ sink' = sink \o IterContent(r.content)
                     /\ result' = ReturnNone
                     /\ pc' = "done"
                     /\ log' = sent
                     /\ UNCHANGED retries
    /\ UNCHANGED <<group, delay, op, via, target, parts, uri, attempt, hasSink, sink0,
                   ww, http_context, warcio_failed, ctx, wwArg, kinds, prev>>

(* The call's frame is left: its locals are discarded and the caller holds *)
(* the value returned or the exception raised.  The engine keeps only      *)
(* self.group and self.delay (and the session).                            *)
CallReturns ==
    /\ pc = "done"
    /\ pc' = "idle"
    /\ op' = "none"
    /\ via' = "none"
    /\ target' = ""
    /\ parts' = <<>>
    /\ uri' = ""
    /\ attempt' = 0
    /\ retries' = 0
    /\ hasSink' = FALSE
    /\ sink0' = <<>>
    /\ sink' = <<>>
    /\ log' = <<>>
    /\ resps' = <<>>
    /\ result' = NoResult
    /\ ctx' = "none"
    /\ wwArg' = "none"
    /\ kinds' = <<>>
    /\ lastResponse' = NoResponse
    /\ UNCHANGED <<group, delay, ww, http_context, warcio_failed, prev>>

(* Variant of SetWarcRaises: the import check left out *)
SetWarcRaises_never(w, failed) == FALSE

(* line 79: ww is not None and warcio_failed *)
SetWarcRaises(w, failed) == w # "None" /\ failed

(* set_warc_writer, lines 78-83.  When the import of line 10 failed the    *)
(* name capture_http is unbound, and line 83 raises NameError after line 82 *)
(* has assigned self.ww.                                                    *)
SetWarcWriter ==
    /\ pc = "idle"
    /\ \E w \in {"None"} \cup Writers :
          /\ wwArg' = w
          /\ IF SetWarcRaises(w, warcio_failed)
             THEN /\ result' = Raise("ImportError")
                  /\ UNCHANGED <<ww, http_context>>
             ELSE IF warcio_failed
             THEN /\ ww' = w
                  /\ result' = Raise("NameError")
                  /\ UNCHANGED http_context
             ELSE /\ ww' = w
                  /\ http_context' = "capture_http"
                  /\ result' = ReturnNone
    /\ pc' = "done"
    /\ op' = "set_warc_writer"
    /\ via' = "none"
    /\ target' = ""
    /\ parts' = <<>>
    /\ uri' = ""
    /\ attempt' = 0
    /\ retries' = 0
    /\ hasSink' = FALSE
    /\ sink0' = <<>>
    /\ sink' = <<>>
    /\ log' = <<>>
    /\ resps' = <<>>
    /\ ctx' = "none"
    /\ kinds' = <<>>
    /\ lastResponse' = NoResponse
    /\ UNCHANGED <<group, delay, warcio_failed, prev>>

Next ==
    \/ GetJson \/ GetAttr \/ GetJsonAttempt \/ DownloadFile \/ DownloadAttempt
    \/ CallReturns \/ SetWarcWriter

Spec == Init /\ [][Next]_vars

---------------------------------------------------------------------------
(* Calls in sequence, the caller keeping the outcome of the call before:   *)
(* the URI, last answer and payload of a successful fetch, otherwise the   *)
(* operation and the exception, and the retry budget the call left.        *)

SeqNames == {"messages", "files", "topics"}
SeqParts == {<<>>, <<IntPart(123)>>}

Held ==
    IF op = "get_json" /\ result.kind = "return"
    THEN [op |-> op, uri |-> uri, resp |-> resps[Len(resps)], result |-> result,
          left |-> retries]
    ELSE [op |-> op, uri |-> "", resp |-> NoPrev.resp,
          result |-> [result EXCEPT !.content = NoContent], left |-> retries]

InitSeq == Init /\ ~warcio_failed

(* a direct call of get_json *)
SeqGetJson ==
    /\ pc = "idle"
    /\ \E t \in SeqNames, ps \in SeqParts : GetJsonBody(t, ps, "direct")

(* The call's frame is left; the caller holds its outcome *)
CallReturnsHeld ==
    /\ pc = "done"
    /\ pc' = "idle"
    /\ op' = "none"
    /\ via' = "none"
    /\ target' = ""
    /\ parts' = <<>>
    /\ uri' = ""
    /\ attempt' = 0
    /\ retries' = 0
    /\ hasSink' = FALSE
    /\ sink0' = <<>>
    /\ sink' = <<>>
    /\ log' = <<>>
    /\ resps' = <<>>
    /\ result' = NoResult
    /\ ctx' = "none"
    /\ wwArg' = "none"
    /\ kinds' = <<>>
    /\ lastResponse' = NoResponse
    /\ prev' = Held
    /\ UNCHANGED <<group, delay, ww, http_context, warcio_failed>>

NextSeq ==
    SeqGetJson \/ GetJsonAttempt \/ DownloadFile \/ DownloadAttempt \/ CallReturnsHeld

SpecSeq == InitSeq /\ [][NextSeq]_vars

---------------------------------------------------------------------------
(* backoff_time as a function of its argument *)

InitBackoff ==
    /\ group \in Groups
    /\ delay = 0
    /\ pc = "backoff_time"
    /\ op = "none"
    /\ via = "none"
    /\ target = ""
    /\ parts = <<>>
    /\ uri = ""
    /\ attempt \in 0..MaxBackoffAttempt
    /\ retries = 0
    /\ hasSink = FALSE
    /\ sink0 = <<>>
    /\ sink = <<>>
    /\ log = <<>>
    /\ resps = <<>>
    /\ result = NoResult
    /\ ww = "None"
    /\ http_context = "dummy_contextmanager"
    /\ warcio_failed = FALSE
    /\ ctx = "none"
    /\ wwArg = "none"
    /\ kinds = <<>>
    /\ lastResponse = NoResponse
    /\ prev = NoPrev

(* delay = backoff_time(attempt); time.sleep(delay) *)
BackoffDraw ==
    /\ pc = "backoff_time"
    /\ \E d \in backoff_time(attempt) :
          log' = <<Backoff(d)>>
    /\ pc' = "backoff_done"
    /\ UNCHANGED <<group, delay, op, via, target, parts, uri, attempt, retries,
                   hasSink, sink0, sink, resps, result,
                   ww, http_context, warcio_failed, ctx, wwArg, kinds, lastResponse, prev>>

NextBackoff == BackoffDraw

SpecBackoff == InitBackoff /\ [][NextBackoff]_vars

---------------------------------------------------------------------------
(* Vocabulary of the properties *)

KnownTarget == target \in DOMAIN API_VERSIONS
Fetching == op = "get_json" /\ KnownTarget
Downloading == op = "download_file"
Requests == Count(log, "request")

Is2xx(st) == 200 <= st /\ st < 300
(* A status the specification lists as retried: non-2xx outside 307, 401, 403, 404 *)
UnlistedStatus(st) == ~Is2xx(st) /\ st \notin {307, 401, 403, 404}
(* An answer the specification classifies Recoverable *)
RecoverableAnswer(a) ==
    a.kind \in TransportErrors \/ (a.kind = "http" /\ UnlistedStatus(a.status))
(* A 200 answer whose envelope has the data field *)
SuccessAnswer(a) ==
    a.kind = "http" /\ a.status = 200 /\ a.body.shape = "object" /\ a.body.hasData

---------------------------------------------------------------------------
(* C1: a fetch of a known resource that only ever receives 503 (or another *)
(* non-2xx status outside 307, 401, 403, 404) sends exactly 5 requests and  *)
(* then raises Recoverable.                                                 *)
C1_FiveAttemptsThenRecoverable ==
    (/\ pc = "done"
     /\ Fetching
     /\ resps # <<>>
     /\ \A j \in 1..Len(resps) :
           resps[j].kind = "http" /\ UnlistedStatus(resps[j].status))
    => (Requests = 5 /\ result = Raise("Recoverable"))

(* C2: while the 5-attempt budget lasts, every Recoverable failure is       *)
(* followed by a backoff and a re-send, and a 200 answer with the data field *)
(* on attempt k, after Recoverable failures only, ends the call on attempt k *)
(* with that field's value returned.                                        *)
C2_SuccessOnAttemptK ==
    Fetching =>
        \A k \in 1..5 :
            /\ (/\ Len(resps) >= k
                /\ \A m \in 1..(k - 1) : RecoverableAnswer(resps[m])
                /\ SuccessAnswer(resps[k]))
               => (/\ pc = "done"
                   /\ Len(resps) = k
                   /\ Requests = k
                   /\ Count(log, "backoff") = k - 1
                   /\ result = ReturnData(resps[k].body.ygData))
            /\ (/\ k < 5
                /\ Len(resps) = k
                /\ \A m \in 1..k : RecoverableAnswer(resps[m]))
               => (pc = "get_json" /\ Count(log, "backoff") = k)

(* C3: a fetch whose first answer has status 307, 401 or 403 raises         *)
(* AuthenticationError, and one whose first answer has status 404 raises    *)
(* NotFound, on that attempt: one request, no backoff sleep.                *)
C3_FailFastOnFirstAttempt ==
    (Fetching /\ resps # <<>> /\ resps[1].kind = "http"
        /\ resps[1].status \in {307, 401, 403, 404})
    => (/\ pc = "done"
        /\ Len(resps) = 1
        /\ Requests = 1
        /\ Count(log, "backoff") = 0
        /\ result = IF resps[1].status = 404 THEN Raise("NotFound")
                    ELSE Raise("AuthenticationError"))

(* C4: a fetch of a name that is no key of API_VERSIONS, through the        *)
(* attribute-style accessor or through get_json, has ended at once with a   *)
(* local error (AttributeError, KeyError) that is no taxonomy kind, and no  *)
(* request was sent.                                                        *)
C4_UnknownResourceFailsLocally ==
    (op = "get_json" /\ ~KnownTarget)
    => (/\ pc = "done"
        /\ result.kind = "raise"
        /\ result.exc \in {"AttributeError", "KeyError"}
        /\ result.exc \notin Taxonomy
        /\ Requests = 0
        /\ resps = <<>>)

C4_Witness ==
    /\ pc = "done"
    /\ op = "get_json"
    /\ via = "direct"
    /\ target = "topics"
    /\ result = Raise("KeyError")
    /\ log = <<>>

(* C5: a finished fetch of a known resource has either returned the data    *)
(* field of the answer's envelope or raised one of the taxonomy kinds.      *)
C5_DataOrTaxonomyError ==
    (pc = "done" /\ Fetching)
    => \/ /\ result.kind = "return"
          /\ resps # <<>>
          /\ SuccessAnswer(resps[Len(resps)])
          /\ result = ReturnData(resps[Len(resps)].body.ygData)
       \/ (result.kind = "raise" /\ result.exc \in Taxonomy)

(* C6: every request of a call is immediately preceded by its own sleep of  *)
(* the configured delay, and a finished call has slept the pacing delay as   *)
(* many times as it sent requests.                                          *)
C6_PaceBeforeEveryRequest ==
    /\ \A j \in 1..Len(log) :
          log[j].ev = "request" => (j > 1 /\ log[j - 1] = Pace(delay))
    /\ pc = "done" => Count(log, "pace") = Requests

C6_Witness ==
    /\ pc = "done"
    /\ Downloading
    /\ Requests = 3
    /\ Count(log, "pace") = 3

C8_Retry400FiveTimes ==
    Downloading =>
        /\ Len(resps) <= 6
        /\ Count(log, "pause") <= 5
        /\ \A j \in 1..Len(log) : log[j].ev = "pause" => log[j] = Pause(5)
        /\ \A j \in 1..Len(resps) :
              (resps[j].kind = "http" /\ resps[j].status = 400 /\ j <= 5)
              => (/\ Len(resps) > j \/ pc = "download_file"
                  /\ Len(log) >= 3 * j
                  /\ log[3 * j - 1] = Request
                  /\ log[3 * j] = Pause(5))
        /\ \A j \in 2..Len(resps) :
              (log[3 * j - 3] = Pause(5) /\ resps[j - 1].status = 400)
        /\ (Len(resps) = 6 /\ resps[6].kind = "http" /\ resps[6].status = 400)
           => (/\ pc = "done"
               /\ result = Raise("HTTPError")
               /\ Requests = 6
               /\ Count(log, "pause") = 5)

C8_Witness ==
    /\ pc = "done"
    /\ Downloading
    /\ Len(resps) = 6
    /\ \A j \in 1..6 : resps[j].kind = "http" /\ resps[j].status = 400
    /\ result = Raise("HTTPError")
    /\ Count(log, "pause") = 5

(* C9, as stated: in a download, an answer with a non-2xx status other than *)
(* 400 makes the call raise at once: it is the last answer, no pause        *)
(* follows it, and nothing is returned or written.                          *)
C9_AnyNon2xxRaises ==
    Downloading =>
        \A j \in 1..Len(resps) :
            (resps[j].kind = "http" /\ ~Is2xx(resps[j].status)
                /\ resps[j].status # 400)
            => (/\ j = Len(resps)
                /\ pc = "done"
                /\ result.kind = "raise"
                /\ log[Len(log)] = Request
                /\ sink = sink0)

(* C9, amended: in a download, an answer with a 4xx or 5xx status other     *)
(* than 400 makes the call raise at once: it is the last answer, no pause   *)
(* follows it, and nothing is returned or written.                          *)
C9_ErrorStatusRaises ==
    Downloading =>
        \A j \in 1..Len(resps) :
            (resps[j].kind = "http" /\ 400 < resps[j].status
                /\ resps[j].status < 600)
            => (/\ j = Len(resps)
                /\ pc = "done"
                /\ result = Raise("HTTPError")
                /\ log[Len(log)] = Request
                /\ sink = sink0)

C9_Witness ==
    /\ pc = "done"
    /\ Downloading
    /\ hasSink
    /\ sink0 # <<>>
    /\ Len(resps) = 1
    /\ resps[1].status = 404
    /\ result = Raise("HTTPError")
    /\ sink = sink0

(* The URI the specification gives *)
RECURSIVE PartsSuffix(_)
PartsSuffix(ps) ==
    IF ps = <<>> THEN "" ELSE "/" \o Str(Head(ps)) \o PartsSuffix(Tail(ps))

ExpectedUri(g, t, ps) ==
    BASE_URI \o "/" \o (IF t \in {"files", "albums"} THEN "v2" ELSE "v1")
        \o "/groups/" \o g \o "/" \o (IF t = "HackGroupInfo" THEN "" ELSE t)
        \o PartsSuffix(ps)

(* C10: the request URI of a fetch of a known resource is the '/'-join of   *)
(* base, version (v2 for files and albums, v1 otherwise), 'groups', the     *)
(* group, the resource name (empty for HackGroupInfo) and the stringified   *)
(* parts in order.                                                          *)
C10_UriShape ==
    (Fetching /\ pc \in {"get_json", "done"})
    => (/\ uri = ExpectedUri(group, target, parts)
        /\ (group = "mygroup" /\ target = "messages"
               /\ parts = <<IntPart(123), StrPart("raw")>>)
           => uri = "https://groups.yahoo.com/api/v1/groups/mygroup/messages/123/raw"
        /\ (group = "mygroup" /\ target = "HackGroupInfo" /\ parts = <<>>)
           => uri = "https://groups.yahoo.com/api/v1/groups/mygroup/"
        /\ (group = "mygroup" /\ target = "files" /\ parts = <<StrPart("raw")>>)
           => uri = "https://groups.yahoo.com/api/v2/groups/mygroup/files/raw")

C10_Witness ==
    /\ pc = "get_json"
    /\ group = "mygroup"
    /\ target = "messages"
    /\ parts = <<IntPart(123), StrPart("raw")>>
    /\ uri = "https://groups.yahoo.com/api/v1/groups/mygroup/messages/123/raw"

---------------------------------------------------------------------------
(* A 200 answer whose envelope is a JSON object without the data field *)
EnvelopeWithoutData(a) ==
    a.kind = "http" /\ a.status = 200 /\ a.body.shape = "object" /\ ~a.body.hasData

(* C11: a fetch attempt that receives 200 with an envelope lacking the data *)
(* field ends the call on that attempt with a failure the caller sees (the  *)
(* KeyError of the lookup, no taxonomy kind): nothing is returned, no        *)
(* further request is sent and no backoff sleep is taken.                   *)
C11_MissingDataNotRetried ==
    Fetching =>
        \A j \in 1..Len(resps) :
            EnvelopeWithoutData(resps[j])
            => (/\ j = Len(resps)
                /\ pc = "done"
                /\ result = Raise("KeyError")
                /\ result.exc \notin Taxonomy
                /\ kinds[j] = "KeyError"
                /\ Requests = j
                /\ log[Len(log)] = Request
                /\ Count(log, "backoff") = j - 1)

C11_Witness ==
    /\ pc = "done"
    /\ Fetching
    /\ Len(resps) = 1
    /\ EnvelopeWithoutData(resps[1])
    /\ resps[1].body.hasError
    /\ result = Raise("KeyError")
    /\ Requests = 1

(* C12: when the import of the recording dependency failed, a call of       *)
(* set_warc_writer with a writer raises at that call (the ImportError kept  *)
(* in warcio_failed) and leaves self.ww and self.http_context as they were; *)
(* every fetch or download that starts afterwards enters the default        *)
(* no-capture context.                                                      *)
C12_FailedImportRaisesAtSetup ==
    [][warcio_failed =>
          /\ (pc = "idle" /\ op' = "set_warc_writer" /\ wwArg' # "None")
             => (/\ pc' = "done"
                 /\ result' = Raise("ImportError")
                 /\ ww' = ww
                 /\ http_context' = http_context)
          /\ ww' = "None"
          /\ http_context' = "dummy_contextmanager"
          /\ (pc' \in {"get_json", "download_file"} => ctx' = "dummy_contextmanager")
      ]_vars

C12_Witness ==
    /\ warcio_failed
    /\ pc = "done"
    /\ op = "set_warc_writer"
    /\ wwArg = "w1"
    /\ result = Raise("ImportError")
    /\ ww = "None"
    /\ http_context = "dummy_contextmanager"

(* A fetch or download that has reached its network calls *)
InNetworkCall ==
    \/ pc \in {"get_json", "download_file"}
    \/ (pc = "done" /\ op \in {"get_json", "download_file"} /\ Requests > 0)

(* C14: the network calls of a fetch or download run inside the recording   *)
(* context exactly when a capture writer is set (self.ww is not None); with *)
(* no writer set they run in the default no-op context.                     *)
C14_CaptureIffWriterSet ==
    InNetworkCall =>
        /\ (ctx = "capture_http") <=> (ww # "None")
        /\ (ww = "None") => ctx = "dummy_contextmanager"

(* The caller holds a successful fetch of the URI being fetched now *)
SameFetchAgain ==
    Fetching /\ prev.op = "get_json" /\ prev.result.kind = "return" /\ prev.uri = uri

(* C13: a successful fetch issued again sends its own request (it is not    *)
(* answered from anything the first one left), returns the data field of    *)
(* its own answer, and returns the payload of the first when the server's   *)
(* answer is the same.                                                      *)
C13_RepeatedFetchIndependent ==
    SameFetchAgain =>
        /\ pc = "get_json" => (resps = <<>> /\ log = <<Pace(delay)>>)
        /\ pc = "done" => (Requests = 1 /\ Len(resps) = 1)
        /\ (pc = "done" /\ result.kind = "return")
           => result = ReturnData(resps[1].body.ygData)
        /\ (pc = "done" /\ resps[1] = prev.resp) => result = prev.result

C13_Witness ==
    /\ SameFetchAgain
    /\ pc = "done"
    /\ Requests = 1
    /\ resps[1] = prev.resp
    /\ result = prev.result
    /\ result = ReturnData("p2")

(* C18: after earlier calls, however they ended, a fetch starts at attempt  *)
(* index 0 with its budget of 5 attempts untouched and a download starts    *)
(* with its budget of 5 retries.                                            *)
C18_FreshBudgetPerCall ==
    /\ (pc = "get_json" /\ resps = <<>>)
       => (attempt = 0 /\ tries - attempt = 5 /\ kinds = <<>> /\ log = <<Pace(delay)>>)
    /\ (pc = "download_file" /\ resps = <<>>)
       => (retries = 5 /\ log = <<>>)
    /\ (pc = "download_file" => retries = 5 - Count(log, "pause"))
    /\ (pc = "get_json" => attempt = Count(log, "backoff"))

C18_Witness ==
    /\ pc = "download_file"
    /\ resps = <<>>
    /\ prev.op = "download_file"
    /\ prev.result = Raise("HTTPError")
    /\ prev.left = 0
    /\ retries = 5

(* An attempt that failed: a transport failure or a non-2xx status *)
FailedAnswer(a) ==
    a.kind \in TransportErrors \/ (a.kind = "http" /\ ~Is2xx(a.status))

(* The kind the specification's table gives a failed answer *)
KindByTable(a) ==
    IF a.kind \in TransportErrors THEN "Recoverable"
    ELSE IF a.status \in {307, 401, 403} THEN "AuthenticationError"
    ELSE IF a.status = 404 THEN "NotFound"
    ELSE "Recoverable"

(* C15: in a fetch, every failed attempt is classified with one taxonomy    *)
(* kind, and that kind is Recoverable for every connection failure, every   *)
(* timeout and every non-2xx status other than 307, 401, 403 and 404.       *)
C15_ClassificationYieldsRecoverable ==
    Fetching =>
        \A j \in 1..Len(resps) :
            /\ FailedAnswer(resps[j]) => kinds[j] \in Taxonomy
            /\ RecoverableAnswer(resps[j]) => kinds[j] = "Recoverable"

(* C16: in a fetch, the kind of an attempt with a non-2xx status is decided *)
(* by the status alone, whatever the body is: not JSON, a JSON object with  *)
(* or without ygError, or JSON that is no object.                           *)
C16_BodyNeverChangesOutcome ==
    Fetching =>
        \A j \in 1..Len(resps) :
            (resps[j].kind = "http" /\ ~Is2xx(resps[j].status))
            => kinds[j] = KindByTable(resps[j])

(* C17, as stated: in a fetch, an answer with any 2xx status that carries   *)
(* the data field ends the call on that attempt with the field's value      *)
(* returned; it is neither classified as an error nor retried.              *)
C17_Any2xxWithDataSucceeds ==
    Fetching =>
        \A j \in 1..Len(resps) :
            (resps[j].kind = "http" /\ Is2xx(resps[j].status)
                /\ resps[j].body.shape = "object" /\ resps[j].body.hasData)
            => (/\ j = Len(resps)
                /\ pc = "done"
                /\ kinds[j] = "return"
                /\ result = ReturnData(resps[j].body.ygData))

(* C17, amended: in a fetch, an answer with status 200 that carries the     *)
(* data field ends the call on that attempt with the field's value          *)
(* returned; it is neither classified as an error nor retried.              *)
C17_Status200WithDataSucceeds ==
    Fetching =>
        \A j \in 1..Len(resps) :
            (resps[j].kind = "http" /\ resps[j].status = 200
                /\ resps[j].body.shape = "object" /\ resps[j].body.hasData)
            => (/\ j = Len(resps)
                /\ pc = "done"
                /\ kinds[j] = "return"
                /\ log[Len(log)] = Request
                /\ result = ReturnData(resps[j].body.ygData))

C17_Witness ==
    /\ Fetching
    /\ pc = "done"
    /\ Len(resps) = 1
    /\ resps[1].status = 200
    /\ resps[1].body.hasData
    /\ resps[1].body.ygData = "p1"
    /\ result = ReturnData("p1")

(* C19: a fetch sends at most 5 requests and a download at most 6, whatever *)
(* the server answers; a call that has used them up has ended.              *)
C19_BoundedRequests ==
    /\ op = "get_json" => (Requests <= 5 /\ Len(resps) <= 5)
    /\ (op = "get_json" /\ Requests = 5) => pc = "done"
    /\ Downloading => (Requests <= 6 /\ Len(resps) <= 6)
    /\ (Downloading /\ Requests = 6) => pc = "done"
    /\ Requests = Len(resps)
    /\ pc = "done" => result.kind \in {"return", "raise"}

C19_Witness ==
    /\ Downloading
    /\ pc = "done"
    /\ Requests = 6
    /\ result.kind = "raise"

(* The chunks cover bytes 0..n of the content tagged t, in order, each of   *)
(* at most chunk_size bytes                                                 *)
ChunksOf(cs, t, n) ==
    /\ \A k \in 1..Len(cs) :
          /\ cs[k].tag = t
          /\ cs[k].from = (IF k = 1 THEN 0 ELSE cs[k - 1].to)
          /\ cs[k].from < cs[k].to
          /\ cs[k].to - cs[k].from <= 4096
    /\ (IF cs = <<>> THEN 0 ELSE cs[Len(cs)].to) = n

====
